---- MODULE Spec2Model ----
(***************************************************************************)
(* Trading-simulation core of the EduFin front end                         *)
(* (src/frontend/src/App.jsx): the zustand store (trades, balance, XP,     *)
(* toasts, active module), the bias detector, and the SimulationModule     *)
(* component (position, local trade history, price, quantity, outcome      *)
(* banner).                                                                *)
(*                                                                         *)
(* Money and prices are integers in mills (1/1000 rupee), so that the      *)
(* two-decimal rounding of toFixed(2) is a real operation: 22148.50 is     *)
(* 22148500.  Math.random() is an integer in millionths, 0 .. 999999.      *)
(***************************************************************************)
EXTENDS Integers, Sequences, FiniteSets

\* ---------------------------------------------------------------- bounds
\* Successful opens explored by Spec (each open advances the clock by one).
MaxOpens == 1
\* Successful opens explored by SpecCap, enough to overflow the store history.
MaxOpensCap == 52
\* Toasts on screen at once (each expires on its own 4 s timer).
MaxToasts == 1
\* Largest quantity explored; the quantities explored are InitialQty .. MaxQty.
MaxQty == 30
\* Longest store history handed to detectBiases by SpecBias.
MaxHistory == 3
\* Largest count handed to generateOHLC by SpecGen.
MaxCount == 2
\* Successful opens explored by SpecXP, enough to take XP to xpMax and past it.
MaxOpensXP == 22
\* Closes of SpecXP that may be losing ones (the first ones).
MaxLosses == 2
\* Longest candle series handed to the chart effect by SpecChart.
MaxSeries == 3
\* Clicks on the action buttons of the education pages explored by SpecPages.
MaxClicks == 2

\* ------------------------------------------------------ program constants
InitialBalance == 124850750
InitialPnl == 3247500
InitialXP == 7840
XpMax == 10000
InitialConfidence == 65
InitialPrice == 22148500
InitialQty == 25
QtyStep == 5
MinQty == 1
TradesCap == 50
BiasHistoryCap == 20
PanelCap == 20
OhlcCount == 120
OverconfidenceLimit == 85
EarlyExitLimit == 3
XpWin == 120
XpLoss == 30
\* exit = currentPrice + (Math.random() - 0.48) * 120
ExitBias == 480000
ExitSpread == 120
\* generateOHLC(count = 120, base = 22000, volatility = 80)
DefaultBase == 22000000
DefaultVolatility == 80
\* change = (Math.random() - 0.48) * volatility
GenBias == 480000
\* close = Math.max(open + change, 1000)
PriceFloor == 1000000
\* volume = Math.floor(50000 + Math.random() * 200000)
VolumeBase == 50000
VolumeSpread == 200000
\* time: now - i * 300
CandleSeconds == 300

Modules == {"dashboard", "indicators", "ai-decision", "simulation", "gamification"}
Directions == {"BUY", "SELL"}

\* Values the confidence slider is dragged to (range input, min 20, max 100).
ConfidenceInputs == {65, 90}
\* Outcomes of Math.random() in closePosition, in millionths: the lowest draw,
\* the draw that gives no offset, and a draw one step above it.
RandomDraws == {0, 480000, 480025}
\* Last close of the generated series, as read by the chart effect.
LastCloses == {22148500}

\* The absent value of position, showOutcome, biasWarning, unrealizedPnL.
Null == [null |-> TRUE]

VARIABLES
  activeModule,     \* store: the module shown
  balance,          \* store
  pnl,              \* store: cumulative pnl
  xp,               \* store
  trades,           \* store: newest first, read by detectBiases
  biasHistory,      \* store: newest first
  confidenceSlider, \* store
  toasts,           \* store: oldest first
  position,         \* SimulationModule: Null or the open position
  tradeHistory,     \* SimulationModule: the Trade History panel, newest first
  currentPrice,     \* SimulationModule
  qty,              \* SimulationModule
  showOutcome,      \* SimulationModule: Null or the trade in the banner
  candles,          \* SimulationModule: length of the candle array
  biasWarning,      \* SimulationModule: Null or the warning text
  outcomeTimers,    \* pending 3 s timers of the mounted SimulationModule
  now,              \* Date.now(), as a logical clock
  last,             \* the last call of handleTrade or closePosition: its name,
                    \* argument, the state it found, what it threw
  probe             \* a part of the code taken alone (detectBiases,
                    \* generateOHLC, the chart effect, a page of the education
                    \* App): its arguments, its progress and its result

vars == <<activeModule, balance, pnl, xp, trades, biasHistory, confidenceSlider,
          toasts, position, tradeHistory, currentPrice, qty, showOutcome,
          candles, biasWarning, outcomeTimers, now, last, probe>>

storeVars == <<activeModule, balance, pnl, xp, trades, biasHistory,
               confidenceSlider, toasts>>
simVars == <<position, tradeHistory, currentPrice, qty, showOutcome, candles,
             biasWarning, outcomeTimers>>

\* ------------------------------------------------------------ pure helpers
\* Number.prototype.toFixed(2) read back with unary +: the nearest multiple
\* of 0.01, halves away from zero.
toFixed2(x) ==
  IF x >= 0 THEN ((x + 5) \div 10) * 10 ELSE -(((-x + 5) \div 10) * 10)

\* Array.prototype.slice(0, n)
Slice(s, n) == IF Len(s) <= n THEN s ELSE SubSeq(s, 1, n)

\* [x, ...s]
Unshift(x, s) == <<x>> \o s

Mounted == activeModule = "simulation"
PosState == IF position = Null THEN "FLAT" ELSE "OPEN"
Called(op, arg) == [op |-> op, arg |-> arg, pre |-> PosState, threw |-> "none"]

\* ------------------------------------------------------------ bias detector
\* recent[i]?.pnl <= 0 in place of < 0
RecentPnlBelowZero_OrZero(recent, i) == i <= Len(recent) /\ recent[i].pnl <= 0

\* recent[i]?.pnl < 0 and the like: a missing entry compares false.
RecentPnlBelowZero(recent, i) == i <= Len(recent) /\ recent[i].pnl < 0
RecentPnlAboveZero(recent, i) == i <= Len(recent) /\ recent[i].pnl > 0
\* recent[0]?.qty || 0
RecentQtyOrZero(recent) == IF Len(recent) >= 1 THEN recent[1].qty ELSE 0

\* trade.confidence >= 85 in place of > 85
OverconfidenceRule_AtLimit(trade) == trade.confidence >= OverconfidenceLimit

\* if (trade.confidence > 85)
OverconfidenceRule(trade) == trade.confidence > OverconfidenceLimit

\* trade.candlesHeld <= 3 in place of < 3
EarlyExitRule_AtLimit(trade) == trade.candlesHeld <= EarlyExitLimit

\* if (trade.candlesHeld < 3)
EarlyExitRule(trade) == trade.candlesHeld < EarlyExitLimit

\* if (recent.length >= 2 && recent[0]?.pnl < 0 && recent[1]?.pnl < 0)
RevengeRule(recent) ==
  Len(recent) >= 2 /\ RecentPnlBelowZero(recent, 1) /\ RecentPnlBelowZero(recent, 2)

\* recent.some in place of recent.every
HerdingRule_Some(trade, recent) ==
  Len(recent) >= 3 /\ \E i \in 1..Len(recent) : recent[i].direction = trade.direction

\* the rule without recent.length >= 3: every() of a short list
HerdingRule_NoLength(trade, recent) ==
  \A i \in 1..Len(recent) : recent[i].direction = trade.direction

\* if (recent.length >= 3 && recent.every(t => t.direction === trade.direction))
HerdingRule(trade, recent) ==
  Len(recent) >= 3 /\ \A i \in 1..Len(recent) : recent[i].direction = trade.direction

\* trade.qty >= in place of >
FomoRule_NotStrict(trade, recent) ==
  RecentPnlAboveZero(recent, 1) /\ trade.qty >= RecentQtyOrZero(recent)

\* if (recent[0]?.pnl > 0 && trade.qty > (recent[0]?.qty || 0))
FomoRule(trade, recent) ==
  RecentPnlAboveZero(recent, 1) /\ trade.qty > RecentQtyOrZero(recent)

\* detectBiases(trade, state), with state.trades the store history at the call
detectBiases(trade, stateTrades) ==
  LET recent == Slice(stateTrades, 3)
      b1 == IF OverconfidenceRule(trade) THEN <<"Overconfidence">> ELSE <<>>
      b2 == IF EarlyExitRule(trade) THEN <<"Early Exit">> ELSE <<>>
      b3 == IF RevengeRule(recent) THEN <<"Revenge Trading">> ELSE <<>>
      b4 == IF HerdingRule(trade, recent) THEN <<"Herding">> ELSE <<>>
      b5 == IF FomoRule(trade, recent) THEN <<"FOMO">> ELSE <<>>
  IN  b1 \o b2 \o b3 \o b4 \o b5

\* ------------------------------------------------------------------- store
\* addTrade keeping one entry more than the capacity
AddTradeTrades_OffByOne(trade, oldTrades) == Slice(Unshift(trade, oldTrades), TradesCap + 1)

\* addTrade: the new store history
AddTradeTrades(trade, oldTrades) == Slice(Unshift(trade, oldTrades), TradesCap)

\* addTrade computing the biases from the history that already holds the trade
AddTradeBiasHistory_AfterAppend(trade, oldTrades, oldBias, ts) ==
  LET biases == detectBiases(trade, Slice(Unshift(trade, oldTrades), TradesCap))
      entry == [trade |-> trade, biases |-> biases, ts |-> ts]
  IN  Slice(IF Len(biases) > 0 THEN Unshift(entry, oldBias) ELSE oldBias, BiasHistoryCap)

\* biasHistory.push in place of biasHistory.unshift
AddTradeBiasHistory_Push(trade, oldTrades, oldBias, ts) ==
  LET biases == detectBiases(trade, oldTrades)
      entry == [trade |-> trade, biases |-> biases, ts |-> ts]
  IN  Slice(IF Len(biases) > 0 THEN Append(oldBias, entry) ELSE oldBias, BiasHistoryCap)

\* addTrade: the new bias history; the biases are computed from get(), the
\* store as it is before set()
AddTradeBiasHistory(trade, oldTrades, oldBias, ts) ==
  LET biases == detectBiases(trade, oldTrades)
      entry == [trade |-> trade, biases |-> biases, ts |-> ts]
  IN  Slice(IF Len(biases) > 0 THEN Unshift(entry, oldBias) ELSE oldBias, BiasHistoryCap)

\* addXP without if (xp >= s.xpMax) xp = s.xpMax
AddXP_NoCap(oldXp, pts) == oldXp + pts

\* addXP
AddXP(oldXp, pts) == IF oldXp + pts >= XpMax THEN XpMax ELSE oldXp + pts

\* addToast: the toast is appended (its removal is the action ExpireToast)
AddToast(oldToasts, type, message) == Append(oldToasts, [type |-> type, message |-> message])

\* ------------------------------------------------------ simulation helpers
\* generateOHLC(count, ...): for (let i = count; i >= 0; i--) pushes one
\* candle per iteration
GeneratedLength(count) == count + 1

\* (Math.random() - 0.48) * 120, in mills, for a draw u in millionths
ExitOffset(u) == ((u - ExitBias) * ExitSpread) \div 1000

\* the P&L expression shared by closePosition and unrealizedPnL
PnlOf(pos, price) ==
  IF pos.direction = "BUY" THEN (price - pos.entry) * pos.qty
                           ELSE (pos.entry - price) * pos.qty

\* the trade built from the quantity and confidence of the controls at the close
BuildTrade_CurrentControls(pos, exit, candleCount) ==
  [direction |-> pos.direction, entry |-> pos.entry, qty |-> qty,
   confidence |-> confidenceSlider, candleEntry |-> pos.candleEntry, ts |-> pos.ts,
   exit |-> toFixed2(exit), pnl |-> toFixed2(PnlOf([pos EXCEPT !.qty = qty], exit)),
   candlesHeld |-> candleCount - pos.candleEntry]

\* closePosition: the trade built from the position and the raw exit price
BuildTrade(pos, exit, candleCount) ==
  [direction |-> pos.direction, entry |-> pos.entry, qty |-> pos.qty,
   confidence |-> pos.confidence, candleEntry |-> pos.candleEntry, ts |-> pos.ts,
   exit |-> toFixed2(exit), pnl |-> toFixed2(PnlOf(pos, exit)),
   candlesHeld |-> candleCount - pos.candleEntry]

\* unrealizedPnL with the operands of the LONG branch taken for both directions
UnrealizedOf_OneSided(pos, price) ==
  IF pos # Null THEN toFixed2((price - pos.entry) * pos.qty) ELSE Null

\* position ? ((position.direction === "BUY" ? currentPrice - position.entry
\*             : position.entry - currentPrice) * position.qty).toFixed(2) : null
UnrealizedOf(pos, price) ==
  IF pos # Null THEN toFixed2(PnlOf(pos, price)) ELSE Null

\* const unrealizedPnL, derived at every render from position and currentPrice
unrealizedPnL == UnrealizedOf(position, currentPrice)

\* ------------------------------------------------------------------- Init
\* No function is being run alone.
Idle == [fn |-> "none"]

\* The store as created and a SimulationModule not yet mounted
InitProgram ==
  /\ activeModule = "dashboard"
  /\ balance = InitialBalance
  /\ pnl = InitialPnl
  /\ xp = InitialXP
  /\ trades = <<>>
  /\ biasHistory = <<>>
  /\ confidenceSlider = InitialConfidence
  /\ toasts = <<>>
  /\ position = Null
  /\ tradeHistory = <<>>
  /\ currentPrice = InitialPrice
  /\ qty = InitialQty
  /\ showOutcome = Null
  /\ candles = 0
  /\ biasWarning = Null
  /\ outcomeTimers = 0
  /\ now = 0
  /\ last = [op |-> "init", arg |-> "", pre |-> "FLAT", threw |-> "none"]

Init == InitProgram /\ probe = Idle

\* ---------------------------------------------------------------- actions
\* useState initial values of a SimulationModule that is not mounted
SimUnmounted ==
  /\ position' = Null
  /\ tradeHistory' = <<>>
  /\ currentPrice' = InitialPrice
  /\ qty' = InitialQty
  /\ showOutcome' = Null
  /\ candles' = 0
  /\ biasWarning' = Null
  /\ outcomeTimers' = 0

\* A fresh SimulationModule after its first render and its chart effect:
\* setCurrentPrice(ohlcData[ohlcData.length - 1].close); setCandles(ohlcData)
SimMounted(lastClose) ==
  /\ position' = Null
  /\ tradeHistory' = <<>>
  /\ currentPrice' = lastClose
  /\ qty' = InitialQty
  /\ showOutcome' = Null
  /\ candles' = GeneratedLength(OhlcCount)
  /\ biasWarning' = Null
  /\ outcomeTimers' = 0

\* Sidebar: setModule(m).  App renders modules[activeModule] under a key, so
\* leaving "simulation" unmounts SimulationModule (its useState is lost, its
\* pending timers act on nothing) and entering it mounts a fresh one.
SetModule(m, lastClose) ==
  /\ m # activeModule
  /\ activeModule' = m
  /\ IF m = "simulation" THEN SimMounted(lastClose)
     ELSE IF activeModule = "simulation" THEN SimUnmounted
     ELSE UNCHANGED simVars
  /\ UNCHANGED <<balance, pnl, xp, trades, biasHistory, confidenceSlider, toasts, now, last, probe>>

\* What handleTrade leaves alone in both branches
HandleTradeFrame ==
  UNCHANGED <<activeModule, balance, pnl, xp, trades, biasHistory, confidenceSlider,
              tradeHistory, currentPrice, qty, showOutcome, candles, outcomeTimers,
              probe>>

\* The position handleTrade records
NewPosition(direction) ==
  [direction |-> direction, entry |-> currentPrice, qty |-> qty,
   confidence |-> confidenceSlider, candleEntry |-> candles, ts |-> now]

\* handleTrade without its if (position) guard
HandleTrade_NoGuard(direction) ==
  /\ Mounted
  /\ last' = Called("handleTrade", direction)
  /\ biasWarning' = IF confidenceSlider > OverconfidenceLimit
                    THEN [text |-> "Overconfidence detected"] ELSE Null
  /\ position' = NewPosition(direction)
  /\ toasts' = AddToast(toasts, "success", "opened")
  /\ now' = now + 1
  /\ HandleTradeFrame

\* handleTrade whose guard warns but does not return
HandleTrade_NoReturn(direction) ==
  /\ Mounted
  /\ last' = Called("handleTrade", direction)
  /\ biasWarning' = IF confidenceSlider > OverconfidenceLimit
                    THEN [text |-> "Overconfidence detected"] ELSE Null
  /\ position' = NewPosition(direction)
  /\ toasts' = IF position # Null
               THEN AddToast(toasts, "warning", "Close existing position first")
               ELSE AddToast(toasts, "success", "opened")
  /\ now' = now + 1
  /\ HandleTradeFrame

\* handleTrade recording the index of the last candle, candles.length - 1
HandleTrade_LastIndex(direction) ==
  /\ Mounted
  /\ last' = Called("handleTrade", direction)
  /\ IF position # Null
     THEN /\ toasts' = AddToast(toasts, "warning", "Close existing position first")
          /\ UNCHANGED <<position, biasWarning, now>>
     ELSE /\ biasWarning' = IF confidenceSlider > OverconfidenceLimit
                            THEN [text |-> "Overconfidence detected"] ELSE Null
          /\ position' = [NewPosition(direction) EXCEPT !.candleEntry = candles - 1]
          /\ toasts' = AddToast(toasts, "success", "opened")
          /\ now' = now + 1
  /\ HandleTradeFrame

\* handleTrade(direction).  (The BUY and SELL buttons are also disabled while a
\* position is open; the handler's own guard is what is modelled.)
HandleTrade(direction) ==
  /\ Mounted
  /\ last' = Called("handleTrade", direction)
  /\ IF position # Null
     THEN /\ toasts' = AddToast(toasts, "warning", "Close existing position first")
          /\ UNCHANGED <<position, biasWarning, now>>
     ELSE /\ biasWarning' = IF confidenceSlider > OverconfidenceLimit
                            THEN [text |-> "Overconfidence detected"] ELSE Null
          /\ position' = NewPosition(direction)
          /\ toasts' = AddToast(toasts, "success", "opened")
          /\ now' = now + 1
  /\ HandleTradeFrame

\* closePosition(), with u the outcome of its Math.random().  (The Close
\* Position button is rendered only while a position is open; the handler's own
\* guard is what is modelled.)
ClosePosition(u) ==
  /\ Mounted
  /\ last' = Called("closePosition", "")
  /\ IF position = Null
     THEN UNCHANGED <<balance, pnl, xp, trades, biasHistory, toasts, position,
                      tradeHistory, showOutcome, outcomeTimers>>
     ELSE LET exit == currentPrice + ExitOffset(u)
              rawPnl == PnlOf(position, exit)
              trade == BuildTrade(position, exit, candles)
          IN  /\ showOutcome' = trade
              /\ tradeHistory' = Slice(Unshift(trade, tradeHistory), PanelCap)
              /\ trades' = AddTradeTrades(trade, trades)
              /\ biasHistory' = AddTradeBiasHistory(trade, trades, biasHistory, now)
              /\ balance' = balance + rawPnl
              /\ pnl' = pnl + rawPnl
              /\ xp' = AddXP(xp, IF rawPnl > 0 THEN XpWin ELSE XpLoss)
              /\ position' = Null
              /\ toasts' = AddToast(toasts, IF rawPnl > 0 THEN "success" ELSE "error", "Trade closed")
              /\ outcomeTimers' = outcomeTimers + 1
  /\ UNCHANGED <<activeModule, confidenceSlider, currentPrice, qty, candles, biasWarning, now,
                 probe>>

\* setTimeout(() => setShowOutcome(null), 3000)
OutcomeTimerFires ==
  /\ outcomeTimers > 0
  /\ outcomeTimers' = outcomeTimers - 1
  /\ showOutcome' = Null
  /\ UNCHANGED <<storeVars, position, tradeHistory, currentPrice, qty, candles,
                 biasWarning, now, last, probe>>

\* addToast's setTimeout(..., 4000): the oldest toast is removed
ExpireToast ==
  /\ Len(toasts) > 0
  /\ toasts' = Tail(toasts)
  /\ UNCHANGED <<activeModule, balance, pnl, xp, trades, biasHistory, confidenceSlider,
                 simVars, now, last, probe>>

\* the range input's onChange: setConfidence(+e.target.value)
SetConfidence(v) ==
  /\ Mounted
  /\ confidenceSlider' = v
  /\ UNCHANGED <<activeModule, balance, pnl, xp, trades, biasHistory, toasts, simVars, now, last, probe>>

\* the quantity buttons: setQty(Math.max(1, qty - 5)) and setQty(qty + 5)
QtyMinus ==
  /\ Mounted
  /\ qty' = IF qty - QtyStep > MinQty THEN qty - QtyStep ELSE MinQty
  /\ UNCHANGED <<storeVars, position, tradeHistory, currentPrice, showOutcome, candles,
                 biasWarning, outcomeTimers, now, last, probe>>

QtyPlus ==
  /\ Mounted
  /\ qty' = qty + QtyStep
  /\ UNCHANGED <<storeVars, position, tradeHistory, currentPrice, showOutcome, candles,
                 biasWarning, outcomeTimers, now, last, probe>>

\* the X button of the bias warning: setBiasWarning(null)
DismissBiasWarning ==
  /\ Mounted
  /\ biasWarning # Null
  /\ biasWarning' = Null
  /\ UNCHANGED <<storeVars, position, tradeHistory, currentPrice, qty, showOutcome,
                 candles, outcomeTimers, now, last, probe>>

\* --------------------------------------------------------- specifications
QtyInRange(q) == q >= InitialQty /\ q <= MaxQty

ToastRoom == Len(toasts) < MaxToasts

Next ==
  \/ \E m \in Modules, c \in LastCloses : SetModule(m, c)
  \/ \E d \in Directions : ToastRoom /\ (position = Null => now < MaxOpens) /\ HandleTrade(d)
  \/ \E u \in RandomDraws : ToastRoom /\ ClosePosition(u)
  \/ OutcomeTimerFires
  \/ ExpireToast
  \/ \E v \in ConfidenceInputs : SetConfidence(v)
  \/ QtyInRange(qty - QtyStep) /\ QtyMinus
  \/ QtyInRange(qty + QtyStep) /\ QtyPlus
  \/ DismissBiasWarning

Spec == Init /\ [][Next]_vars

\* The store history filled past its capacity: one direction, one draw.
NextCap ==
  \/ \E c \in LastCloses : activeModule # "simulation" /\ SetModule("simulation", c)
  \/ ToastRoom /\ (position = Null => now < MaxOpensCap) /\ HandleTrade("BUY")
  \/ ToastRoom /\ position # Null /\ ClosePosition(480025)
  \/ OutcomeTimerFires
  \/ ExpireToast

SpecCap == Init /\ [][NextCap]_vars

\* The session of SpecCap with a user who goes on trading and timers that
\* fire: whatever step is possible is eventually taken.
SpecSession == Init /\ [][NextCap]_vars /\ WF_vars(NextCap)

\* XP taken to its maximum: BUY trades only, the first closes losing or
\* winning, the later ones winning.
NextXP ==
  \/ \E c \in LastCloses : activeModule # "simulation" /\ SetModule("simulation", c)
  \/ ToastRoom /\ (position = Null => now < MaxOpensXP) /\ HandleTrade("BUY")
  \/ ToastRoom /\ position # Null /\ Len(trades) < MaxLosses /\ ClosePosition(0)
  \/ ToastRoom /\ position # Null /\ ClosePosition(480025)
  \/ OutcomeTimerFires
  \/ ExpireToast

SpecXP == Init /\ [][NextXP]_vars

\* ------------------------------------------------- detectBiases taken alone
progVars == <<activeModule, balance, pnl, xp, trades, biasHistory, confidenceSlider,
              toasts, position, tradeHistory, currentPrice, qty, showOutcome,
              candles, biasWarning, outcomeTimers, now, last>>

\* Positions closed by SpecBias: both directions, a quantity below, at and above
\* that of the history, confidences on both sides of the limit.
BiasQuantities == {InitialQty - QtyStep, InitialQty, InitialQty + QtyStep}
BiasConfidences == {50, 85, 86, 90}
BiasPosition(d, q, c) ==
  [direction |-> d, entry |-> InitialPrice, qty |-> q, confidence |-> c,
   candleEntry |-> GeneratedLength(OhlcCount), ts |-> 0]
BiasPositions ==
  {BiasPosition(d, q, c) : d \in Directions, q \in BiasQuantities, c \in BiasConfidences}

\* Candle counts at the close: 0, 2 and 3 candles after the open.
BiasCandleCounts ==
  {GeneratedLength(OhlcCount) + k : k \in {0, EarlyExitLimit - 1, EarlyExitLimit}}

\* Trades of the history: closed positions of either direction with a loss, no
\* result or a gain.
BiasHistoryTrades ==
  {BuildTrade(BiasPosition(d, InitialQty, InitialConfidence),
              InitialPrice + ExitOffset(u), GeneratedLength(OhlcCount)) :
     d \in Directions, u \in RandomDraws}
BiasHistories == UNION {[1..n -> BiasHistoryTrades] : n \in 0..MaxHistory}

InitBias ==
  /\ InitProgram
  /\ probe \in {[fn |-> "detectBiases", pos |-> p, candleCount |-> k, history |-> h,
                 done |-> FALSE, candlesHeld |-> 0, flags |-> <<>>] :
                  p \in BiasPositions, k \in BiasCandleCounts, h \in BiasHistories}

\* closePosition's trade for probe.pos, then detectBiases(trade, {trades: history})
RunDetectBiases ==
  /\ probe.fn = "detectBiases"
  /\ ~probe.done
  /\ LET trade == BuildTrade(probe.pos, probe.pos.entry, probe.candleCount)
     IN  probe' = [probe EXCEPT !.done = TRUE,
                                !.candlesHeld = trade.candlesHeld,
                                !.flags = detectBiases(trade, probe.history)]
  /\ UNCHANGED progVars

NextBias == RunDetectBiases

SpecBias == InitBias /\ [][NextBias]_vars

\* ------------------------------------------------- generateOHLC taken alone
Max(a, b) == IF a >= b THEN a ELSE b
Min(a, b) == IF a <= b THEN a ELSE b

\* Arguments of generateOHLC: the defaults, and a base on the price floor.
GenCounts == 0..MaxCount
GenBases == {DefaultBase, PriceFloor}
\* Math.floor(Date.now() / 1000)
GenNows == {1700000000}
\* Outcomes of Math.random() in millionths: for change the lowest draw, the
\* draw giving +0.002 and the highest; for high and low the draws giving 0
\* and 0.003, and the highest; for volume the lowest and the highest.
GenChangeDraws == {0, 480025, 999975}
GenSpreadDraws == {0, 75, 999975}
GenVolumeDraws == {0, 999975}

\* (Math.random() - 0.48) * volatility, in mills
GenChange(u, volatility) == ((u - GenBias) * volatility) \div 1000

\* Math.random() * volatility * 0.5, in mills
GenSpread(u, volatility) == (u * volatility) \div 2000

\* Math.max(open, close) + Math.random() * volatility * 0.5 with open in
\* place of the maximum
CandleHigh_FromOpen(open, close, u, volatility) == open + GenSpread(u, volatility)

\* const high = Math.max(open, close) + Math.random() * volatility * 0.5
CandleHigh(open, close, u, volatility) == Max(open, close) + GenSpread(u, volatility)

\* const low = Math.min(open, close) - Math.random() * volatility * 0.5
CandleLow(open, close, u, volatility) == Min(open, close) - GenSpread(u, volatility)

\* const volume = Math.floor(50000 + Math.random() * 200000)
CandleVolume(u) == VolumeBase + ((VolumeSpread \div 1000) * u) \div 1000

\* time: now + i * 300 in place of now - i * 300
CandleTime_Forward(t, i) == t + i * CandleSeconds

\* time: now - i * 300
CandleTime(t, i) == t - i * CandleSeconds

\* The call generateOHLC(count, base, volatility) before its first iteration:
\* data = [], close = base, i = count.
GenCall(count, base, volatility, t) ==
  [fn |-> "generateOHLC", count |-> count, base |-> base, volatility |-> volatility,
   now |-> t, i |-> count, close |-> base, data |-> <<>>]

InitGen ==
  /\ InitProgram
  /\ probe \in {GenCall(c, b, DefaultVolatility, t) : c \in GenCounts, b \in GenBases, t \in GenNows}

\* One iteration of for (let i = count; i >= 0; i--): the four draws of
\* Math.random() are uc, uh, ul, uv in the order of the code.
GenerateStep(uc, uh, ul, uv) ==
  /\ probe.fn = "generateOHLC"
  /\ probe.i >= 0
  /\ LET open == probe.close
         change == GenChange(uc, probe.volatility)
         close == Max(open + change, PriceFloor)
         high == CandleHigh(open, close, uh, probe.volatility)
         low == CandleLow(open, close, ul, probe.volatility)
         volume == CandleVolume(uv)
         candle == [time |-> CandleTime(probe.now, probe.i), open |-> toFixed2(open),
                    high |-> toFixed2(high), low |-> toFixed2(low),
                    close |-> toFixed2(close), volume |-> volume]
     IN  probe' = [probe EXCEPT !.i = probe.i - 1, !.close = close,
                                !.data = Append(probe.data, candle)]
  /\ UNCHANGED progVars

NextGen ==
  \E uc \in GenChangeDraws, uh \in GenSpreadDraws, ul \in GenSpreadDraws, uv \in GenVolumeDraws :
    GenerateStep(uc, uh, ul, uv)

SpecGen == InitGen /\ [][NextGen]_vars

\* ---------------------------------------------- the chart effect taken alone
\* Closes of the candles of the series handed to the effect.
SeriesCloses == {PriceFloor, DefaultBase, InitialPrice, InitialPrice + 10}

\* A series as generateOHLC shapes it: each candle opens at the close before
\* it, times 300 s apart.
SeriesOf(closes) ==
  [k \in 1..Len(closes) |->
     LET open == IF k = 1 THEN DefaultBase ELSE closes[k - 1]
     IN  [time |-> CandleTime(0, Len(closes) - k), open |-> open,
          high |-> Max(open, closes[k]), low |-> Min(open, closes[k]),
          close |-> closes[k], volume |-> VolumeBase]]

ChartSeries == {SeriesOf(c) : c \in UNION {[1..n -> SeriesCloses] : n \in 0..MaxSeries}}

\* volumeSeries.setData(ohlcData.map(d => ({ time, value, color })))
VolumeBars(ohlcData) ==
  [k \in 1..Len(ohlcData) |->
     [time |-> ohlcData[k].time, value |-> ohlcData[k].volume,
      color |-> IF ohlcData[k].close >= ohlcData[k].open THEN "green" ELSE "red"]]

\* SimulationModule rendered for the first time with ohlcData, its effect not
\* yet run.
ChartCall(ohlcData) ==
  [fn |-> "chartEffect", ohlcData |-> ohlcData, done |-> FALSE, threw |-> "none",
   volume |-> <<>>]

InitChart == InitProgram /\ probe \in {ChartCall(d) : d \in ChartSeries}

\* The chart effect, useEffect(() => {...}, [ohlcData]): both series get their
\* data, then setCurrentPrice(ohlcData[ohlcData.length - 1].close) and
\* setCandles(ohlcData).  On an empty ohlcData the element read is undefined
\* and .close throws a TypeError before either setter is called.
ChartEffect ==
  /\ probe.fn = "chartEffect"
  /\ ~probe.done
  /\ activeModule' = "simulation"
  /\ IF Len(probe.ohlcData) = 0
     THEN /\ probe' = [probe EXCEPT !.done = TRUE, !.threw = "TypeError"]
          /\ UNCHANGED <<currentPrice, candles>>
     ELSE /\ probe' = [probe EXCEPT !.done = TRUE, !.volume = VolumeBars(probe.ohlcData)]
          /\ currentPrice' = probe.ohlcData[Len(probe.ohlcData)].close
          /\ candles' = Len(probe.ohlcData)
  /\ UNCHANGED <<balance, pnl, xp, trades, biasHistory, confidenceSlider, toasts,
                 position, tradeHistory, qty, showOutcome, biasWarning,
                 outcomeTimers, now, last>>

NextChart == ChartEffect

SpecChart == InitChart /\ [][NextChart]_vars

\* ------------------------------------- the API-backed pages taken alone
\* PAGE_MAP of the education App: one page is mounted at a time.
Pages == {"indicator", "ai-decision", "playground", "strategy", "quiz", "progress"}

\* A result object, from the server or built in a catch block.
ApiData(shape) == [from |-> "api", shape |-> shape]
DemoData == [from |-> "demo", shape |-> "built"]

\* What fetch does: it rejects, or it resolves with r.ok and a body that
\* r.json() parses or rejects.  Parsed bodies are null, an object with a data
\* field (an object or null), or an object without one.
Responses ==
  {[fetch |-> "rejects"]}
  \cup {[fetch |-> "resolves", ok |-> FALSE, body |-> "not json"]}
  \cup {[fetch |-> "resolves", ok |-> TRUE, body |-> b] :
          b \in {"not json", "null", "data object", "data null", "object"}}

\* const json = await r.json(); return json.data ?? json
JsonValue(body) ==
  IF body = "null" THEN [threw |-> TRUE, value |-> Null]
  ELSE IF body = "data object" THEN [threw |-> FALSE, value |-> ApiData("json.data")]
  ELSE [threw |-> FALSE, value |-> ApiData("json")]

\* api.post: the value it resolves with, or threw
ApiPost(r) ==
  IF r.fetch = "rejects" THEN [threw |-> TRUE, value |-> Null]
  ELSE IF ~r.ok THEN [threw |-> TRUE, value |-> Null]
  ELSE IF r.body = "not json" THEN [threw |-> TRUE, value |-> Null]
  ELSE JsonValue(r.body)

\* useState initial values of a page, and ProgressPage's mount effect
\* useEffect(() => { loadDemo(); }, [])
PageMounted(page) ==
  [loading |-> FALSE, submitted |-> FALSE, inFlight |-> FALSE,
   result |-> IF page = "progress" THEN DemoData ELSE Null]

\* The type of the toast a settled action shows
SettledToast(page, post) ==
  IF ~post.threw THEN "success"
  ELSE IF page \in {"quiz", "progress"} THEN "info" ELSE "error"

\* try { setResult(res) } with a catch that only shows the toast
SettledResult_NoFallback(page, post) == post.value

\* try { const res = await api.post(...); setResult(res) } catch { setResult({...}) }
SettledResult(page, post) == IF post.threw THEN DemoData ELSE post.value

PagesCall(page) ==
  [fn |-> "pages", active |-> page, page |-> PageMounted(page), orphans |-> <<>>,
   toasts |-> <<>>, clicks |-> 0, settled |-> [fetch |-> "none"]]

InitPages == InitProgram /\ probe \in {PagesCall(p) : p \in Pages}

\* analyze / submit / simulate / submitQuiz / compute up to the await:
\* setLoading(true) and the request is sent.  The button is disabled while
\* loading; submitQuiz's button needs every question answered.
ActionStarts ==
  /\ probe.fn = "pages"
  /\ ~probe.page.loading
  /\ probe.clicks < MaxClicks
  /\ probe' = [probe EXCEPT !.page.loading = TRUE, !.page.inFlight = TRUE,
                            !.clicks = probe.clicks + 1]
  /\ UNCHANGED progVars

\* The rest of the handler once the request has settled with r: the try or
\* the catch, then setLoading(false).
ActionSettles(r) ==
  /\ probe.fn = "pages"
  /\ probe.page.inFlight
  /\ LET post == ApiPost(r)
     IN  probe' = [probe EXCEPT
                     !.page.result = SettledResult(probe.active, post),
                     !.page.submitted = (probe.active = "quiz") \/ probe.page.submitted,
                     !.page.loading = FALSE,
                     !.page.inFlight = FALSE,
                     !.toasts = Append(probe.toasts, SettledToast(probe.active, post)),
                     !.settled = r]
  /\ UNCHANGED progVars

\* setActive(id): the page is replaced; a request in flight keeps running and
\* its continuation sets the state of a component that is gone.
SetActive(page) ==
  /\ probe.fn = "pages"
  /\ page # probe.active
  /\ probe' = [probe EXCEPT !.active = page, !.page = PageMounted(page),
                            !.orphans = IF probe.page.inFlight
                                        THEN Append(probe.orphans, probe.active)
                                        ELSE probe.orphans]
  /\ UNCHANGED progVars

\* A request of an unmounted page settles: only its toast is seen.
OrphanSettles(i, r) ==
  /\ probe.fn = "pages"
  /\ i \in 1..Len(probe.orphans)
  /\ probe' = [probe EXCEPT
                 !.orphans = SubSeq(probe.orphans, 1, i - 1)
                             \o SubSeq(probe.orphans, i + 1, Len(probe.orphans)),
                 !.toasts = Append(probe.toasts, SettledToast(probe.orphans[i], ApiPost(r)))]
  /\ UNCHANGED progVars

\* _addToast's setTimeout(..., 3000): the oldest toast is removed
PageToastExpires ==
  /\ probe.fn = "pages"
  /\ Len(probe.toasts) > 0
  /\ probe' = [probe EXCEPT !.toasts = Tail(probe.toasts)]
  /\ UNCHANGED progVars

NextPages ==
  \/ ActionStarts
  \/ \E r \in Responses : ActionSettles(r)
  \/ \E p \in Pages : SetActive(p)
  \/ \E i \in 1..MaxClicks, r \in Responses : OrphanSettles(i, r)
  \/ PageToastExpires

SpecPages == InitPages /\ [][NextPages]_vars

\* ------------------------------------------------------------------ claims
\* Cent-aligned prices at which the render expression of unrealizedPnL is probed.
ProbePrices == {22090900, 22148500, 22148510, 22210900}

\* The P&L of the claims: (price - entry) * quantity for BUY, (entry - price) *
\* quantity for SELL
ClaimedPnl(direction, entry, price, quantity) ==
  IF direction = "BUY" THEN (price - entry) * quantity ELSE (entry - price) * quantity

\* C1: a position comes into being only by handleTrade called while FLAT; no
\* step replaces an open position by another one, so two positions never
\* coexist.
C1_OnePosition ==
  [][(position' # Null /\ position' # position)
       => (position = Null /\ \E d \in Directions : HandleTrade(d))]_vars

\* C1 witness: a position is open and a further open has been attempted on it.
C1_Witness ==
  position # Null /\ last.op = "handleTrade" /\ last.pre = "OPEN"

\* C2: handleTrade called while a position is OPEN leaves the position, the
\* store history, the panel history, the balance, the cumulative pnl and the XP
\* as they were.
C2_RejectedOpenFrame ==
  [][\A d \in Directions :
       (position # Null /\ HandleTrade(d))
         => (position' = position /\ UNCHANGED <<trades, tradeHistory, balance, pnl, xp>>)]_vars

\* C2 witness: an open in the opposite direction was rejected and the position
\* still has its own direction.
C2_Witness ==
  /\ position # Null
  /\ last.op = "handleTrade" /\ last.pre = "OPEN"
  /\ last.arg # position.direction
  /\ Len(toasts) > 0 /\ toasts[Len(toasts)].type = "warning"

\* C3: handleTrade called while a position is OPEN fails with InvalidStateError.
C3_OpenWhileOpenRaises ==
  (last.op = "handleTrade" /\ last.pre = "OPEN") => last.threw = "InvalidStateError"

\* C4: closePosition called while FLAT fails with InvalidStateError.
C4_CloseWhileFlatRaises ==
  (last.op = "closePosition" /\ last.pre = "FLAT") => last.threw = "InvalidStateError"

\* C5: every step that takes the simulator from OPEN back to FLAT puts the
\* closed position at the head of the store history as a trade.
C5_OnlyCloseDestroys ==
  [][(position # Null /\ position' = Null)
       => (Len(trades') > 0 /\ trades' # trades /\ trades'[1].ts = position.ts)]_vars

\* C6: every trade of the store history has pnl = (exit - entry) * qty for BUY
\* and (entry - exit) * qty for SELL.
C6_RealizedPnlFormula ==
  \A i \in 1..Len(trades) :
    trades[i].pnl = ClaimedPnl(trades[i].direction, trades[i].entry, trades[i].exit, trades[i].qty)

\* C7: the exit price of a trade is the current market price at its close, so a
\* position closed at the price it was opened at has exit = entry and pnl = 0.
C7_ExitIsCurrentPrice ==
  [][(position # Null /\ trades' # trades)
       => (trades'[1].exit = currentPrice
           /\ (position.entry = currentPrice => trades'[1].pnl = 0))]_vars

\* C8: while a position is OPEN the unrealized P&L is (currentPrice - entry) *
\* qty for BUY and (entry - currentPrice) * qty for SELL, derived from the
\* position and the price (at the current price and at every probe price);
\* while FLAT it is absent.
C8_UnrealizedPnl ==
  /\ position = Null => unrealizedPnL = Null
  /\ position # Null =>
       /\ unrealizedPnL = ClaimedPnl(position.direction, position.entry, currentPrice, position.qty)
       /\ \A p \in ProbePrices :
            UnrealizedOf(position, p) = ClaimedPnl(position.direction, position.entry, p, position.qty)

\* C8 witness: a SELL position is open and its unrealized P&L is a number.
C8_Witness ==
  position # Null /\ position.direction = "SELL" /\ unrealizedPnL = 0

\* C9: handleTrade called while FLAT opens a position with the requested
\* direction, the quantity and confidence of that moment, entry = currentPrice
\* and candleEntry = the number of candles.
C9_OpenRecords ==
  [][\A d \in Directions :
       (position = Null /\ HandleTrade(d))
         => /\ position' # Null
            /\ position'.direction = d
            /\ position'.qty = qty
            /\ position'.confidence = confidenceSlider
            /\ position'.entry = currentPrice
            /\ position'.candleEntry = candles]_vars

\* C9 witness: a position opened with a changed quantity and confidence.
C9_Witness ==
  /\ position # Null
  /\ last.op = "handleTrade" /\ last.pre = "FLAT" /\ last.arg = "SELL"
  /\ position.qty = InitialQty + QtyStep
  /\ position.confidence > OverconfidenceLimit
  /\ position.candleEntry = GeneratedLength(OhlcCount)

\* The trades of a history are strictly newer towards its head.
NewestFirst(h) == \A i \in 1..Len(h) - 1 : h[i].ts > h[i + 1].ts

\* C10: the store history never holds more than TradesCap trades; every change
\* of it puts one new, newer trade at the head and keeps the TradesCap - 1 most
\* recent of the others in their order, so that the oldest of a full history is
\* dropped, and no dropped trade comes back.
C10_BoundedHistory ==
  /\ [](Len(trades) <= TradesCap /\ NewestFirst(trades))
  /\ [][trades' # trades
          => /\ Len(trades') > 0
             /\ Tail(trades') = Slice(trades, TradesCap - 1)
             /\ \A i \in 1..Len(trades) : trades'[1].ts > trades[i].ts]_vars

\* C10 witness: a full history from which the first trades have been evicted.
C10_Witness ==
  /\ Len(trades) = TradesCap
  /\ now > TradesCap + 1
  /\ position = Null
  /\ \A i \in 1..Len(trades) : trades[i].ts > 1

\* A flag is among the biases returned.
Has(flags, f) == \E i \in 1..Len(flags) : flags[i] = f

\* C11: at every close the biases recorded for the new trade are those that
\* detectBiases gives on the store history as it was before the trade was put
\* at its head.
C11_HistoryBeforeAppend ==
  [][trades' # trades
       => LET b == detectBiases(trades'[1], trades)
          IN  IF Len(b) > 0
              THEN /\ Len(biasHistory') > 0
                   /\ biasHistory'[1].trade = trades'[1]
                   /\ biasHistory'[1].biases = b
              ELSE biasHistory' = biasHistory]_vars

\* C11 witness: the third BUY in a row has been closed; with itself counted it
\* would make three, and it is not flagged Herding.
C11_Witness ==
  /\ Len(trades) = 3
  /\ \A i \in 1..3 : trades[i].direction = "BUY"
  /\ Len(biasHistory) > 0
  /\ biasHistory[1].trade = trades[1]
  /\ ~Has(biasHistory[1].biases, "Herding")

\* detectBiases has returned in the probe.
Detected == probe.fn = "detectBiases" /\ probe.done

\* C12: Revenge Trading is among the flags exactly when the history holds at
\* least two trades and its two most recent both have pnl < 0.
C12_RevengeTrading ==
  Detected =>
    (Has(probe.flags, "Revenge Trading")
       <=> (/\ Len(probe.history) >= 2
            /\ probe.history[1].pnl < 0
            /\ probe.history[2].pnl < 0))

\* C12 witness: two losing trades, the older one after a winning trade, and the
\* flag raised.
C12_Witness ==
  /\ Detected
  /\ Len(probe.history) = 3
  /\ probe.history[1].pnl < 0 /\ probe.history[2].pnl < 0 /\ probe.history[3].pnl > 0
  /\ Has(probe.flags, "Revenge Trading")

\* C13: Herding is among the flags exactly when the history holds at least
\* three trades and its three most recent all have the direction of the new
\* trade.
C13_Herding ==
  Detected =>
    (Has(probe.flags, "Herding")
       <=> (/\ Len(probe.history) >= 3
            /\ \A i \in 1..3 : probe.history[i].direction = probe.pos.direction))

\* C13 witness: three SELL trades before a SELL, flagged.
C13_Witness ==
  /\ Detected
  /\ probe.pos.direction = "SELL"
  /\ Len(probe.history) >= 3
  /\ Has(probe.flags, "Herding")

\* C14: FOMO is among the flags exactly when the history is not empty, its most
\* recent trade has pnl > 0 and the new trade's quantity is strictly greater
\* than that trade's.
C14_Fomo ==
  Detected =>
    (Has(probe.flags, "FOMO")
       <=> (/\ Len(probe.history) >= 1
            /\ probe.history[1].pnl > 0
            /\ probe.pos.qty > probe.history[1].qty))

\* C14 witness: a larger trade after a single winning trade, flagged.
C14_Witness ==
  /\ Detected
  /\ Len(probe.history) = 1
  /\ probe.history[1].pnl > 0
  /\ probe.pos.qty > probe.history[1].qty
  /\ Has(probe.flags, "FOMO")

\* C15: Overconfidence is among the flags exactly when the trade's confidence
\* is above 85, whatever the history: 90 is flagged, 85 and 50 are not.
C15_Overconfidence ==
  Detected =>
    /\ Has(probe.flags, "Overconfidence") <=> probe.pos.confidence > 85
    /\ probe.pos.confidence = 90 => Has(probe.flags, "Overconfidence")
    /\ probe.pos.confidence \in {50, 85} => ~Has(probe.flags, "Overconfidence")

\* C15 witness: confidence 90 flagged with no other flag raised.
C15_Witness ==
  /\ Detected
  /\ probe.pos.confidence = 90
  /\ probe.flags = <<"Overconfidence">>

\* C16: Early Exit is among the flags exactly when candlesHeld < 3, with
\* candlesHeld the candle count at the close minus the position's candleEntry.
C16_EarlyExit ==
  Detected =>
    /\ probe.candlesHeld = probe.candleCount - probe.pos.candleEntry
    /\ Has(probe.flags, "Early Exit") <=> probe.candleCount - probe.pos.candleEntry < 3

\* C16 witness: a trade held 3 candles, not flagged Early Exit although other
\* flags are raised.
C16_Witness ==
  /\ Detected
  /\ probe.candlesHeld = 3
  /\ ~Has(probe.flags, "Early Exit")
  /\ Len(probe.flags) >= 2

\* C17: on a history of 0, 1 or 2 trades detectBiases returns, and Revenge
\* Trading is not raised on fewer than 2 trades, Herding not on fewer than 3,
\* FOMO not on an empty history.
C17_ShortHistory ==
  [](probe.fn = "detectBiases" =>
       /\ ~probe.done => ENABLED RunDetectBiases
       /\ probe.done =>
            /\ Len(probe.history) < 2 => ~Has(probe.flags, "Revenge Trading")
            /\ Len(probe.history) < 3 => ~Has(probe.flags, "Herding")
            /\ Len(probe.history) < 1 => ~Has(probe.flags, "FOMO"))

\* C17 witness: two BUY trades before a BUY, returned without Herding.
C17_Witness ==
  /\ Detected
  /\ Len(probe.history) = 2
  /\ \A i \in 1..2 : probe.history[i].direction = probe.pos.direction
  /\ ~Has(probe.flags, "Herding")

\* A close of an open position by closePosition.
SuccessfulClose == position # Null /\ \E u \in RandomDraws : ClosePosition(u)

Generating == probe.fn = "generateOHLC"
Generated == Generating /\ probe.i < 0

\* C19: every emitted candle has high >= max(open, close), low <= min(open,
\* close), volume >= 0 and close > 0, for every draw and after rounding.
C19_CandleGeometry ==
  Generating =>
    \A k \in 1..Len(probe.data) :
      LET c == probe.data[k]
      IN  /\ c.high >= c.open /\ c.high >= c.close
          /\ c.low <= c.open /\ c.low <= c.close
          /\ c.volume >= 0
          /\ c.close > 0

\* C19 witness: a returned series with a rising candle whose high is exactly
\* its close, and a candle pinned to the price floor.
C19_Witness ==
  /\ Generated
  /\ \E k \in 1..Len(probe.data) :
       probe.data[k].open < probe.data[k].close /\ probe.data[k].high = probe.data[k].close
  /\ \E k \in 1..Len(probe.data) : probe.data[k].close = PriceFloor

\* C20: every candle after the first opens at the close of the one before it,
\* the first opens at the base price, and times are strictly increasing.
C20_Continuity ==
  Generating =>
    /\ Len(probe.data) > 0 => probe.data[1].open = probe.base
    /\ \A k \in 2..Len(probe.data) :
         /\ probe.data[k].open = probe.data[k - 1].close
         /\ probe.data[k].time > probe.data[k - 1].time

\* C20 witness: a returned series of three candles whose closes differ.
C20_Witness ==
  /\ Generated
  /\ Len(probe.data) = 3
  /\ probe.data[1].close # probe.data[2].close
  /\ probe.data[2].open = probe.data[1].close
  /\ probe.data[3].time > probe.data[1].time

\* C21: generateOHLC called with a count returns exactly count candles; a count
\* of 0 returns an empty sequence.
C21_ExactCount ==
  Generated => Len(probe.data) = probe.count

\* C22: whatever the request does (resolves OK, resolves non-OK, rejects, or
\* has a body that cannot be read), the page action ends with loading = false
\* and a non-null result, the demo result when api.post threw; a page is
\* loading only while its request is pending.
C22_ActionEndsWithResult ==
  /\ [](probe.fn = "pages" => (probe.page.loading => probe.page.inFlight))
  /\ [][(\E r \in Responses : ActionSettles(r)) =>
          /\ ~probe'.page.loading
          /\ probe'.page.result # Null
          /\ ApiPost(probe'.settled).threw => probe'.page.result = DemoData]_vars

\* C22 witness: the indicator page after a non-OK response, showing the demo
\* result and not loading.
C22_Witness ==
  /\ probe.fn = "pages"
  /\ probe.active = "indicator"
  /\ probe.settled = [fetch |-> "resolves", ok |-> FALSE, body |-> "not json"]
  /\ ~probe.page.loading
  /\ probe.page.result = DemoData

C25_BalanceFollowsTrades ==
  /\ [](balance - pnl = InitialBalance - InitialPnl)
  /\ [][IF SuccessfulClose
        THEN /\ balance' - balance = showOutcome'.pnl
             /\ pnl' - pnl = showOutcome'.pnl
        ELSE UNCHANGED <<balance, pnl>>]_vars

\* C26: whenever the simulation module is shown, also after leaving it and
\* returning, the Trade History panel equals the PanelCap most recent trades
\* of the store history, in the same order.
C26_PanelMirrorsStore ==
  Mounted => tradeHistory = Slice(trades, PanelCap)

\* The slider or a quantity button is used.
ControlsChanged == (\E v \in ConfidenceInputs : SetConfidence(v)) \/ QtyMinus \/ QtyPlus

\* C27: while a position is open, a change of the confidence slider or of the
\* quantity leaves the position and its unrealized P&L (at the current price
\* and at every probe price) as they are, no step alters an open position in
\* place, and the trade of the later close carries the position's confidence
\* and quantity and the realized P&L computed with the position's quantity.
C27_OpenValuesKept ==
  [][/\ (position # Null /\ ControlsChanged) =>
          /\ position' = position
          /\ unrealizedPnL' = unrealizedPnL
          /\ \A p \in ProbePrices : UnrealizedOf(position', p) = UnrealizedOf(position, p)
     /\ (position # Null /\ position' # Null) => position' = position
     /\ \A u \in RandomDraws :
          (position # Null /\ ClosePosition(u)) =>
            /\ showOutcome'.confidence = position.confidence
            /\ showOutcome'.qty = position.qty
            /\ showOutcome'.pnl = toFixed2(ClaimedPnl(position.direction, position.entry,
                                                      currentPrice + ExitOffset(u), position.qty))]_vars

\* C27 witness: a trade closed after the quantity and the slider were both
\* changed while its position was open.
C27_Witness ==
  /\ last.op = "closePosition" /\ last.pre = "OPEN"
  /\ showOutcome # Null
  /\ showOutcome.qty = InitialQty /\ qty = InitialQty + QtyStep
  /\ showOutcome.confidence = InitialConfidence /\ confidenceSlider > OverconfidenceLimit
  /\ showOutcome.pnl < 0

\* The XP of a close: 120 when the P&L is positive, 30 otherwise.
ClaimedPoints(amount) == IF amount > 0 THEN 120 ELSE 30

\* C28: XP never exceeds xpMax and never decreases; a successful close with
\* draw u adds 120 XP when its P&L is positive and 30 otherwise, up to xpMax;
\* no other step changes XP; XP at xpMax stays there; every close so far has
\* added at least 30 until xpMax was reached.
C28_XpSaturates ==
  /\ [](xp <= XpMax)
  /\ [](xp >= XpMax \/ xp >= InitialXP + XpLoss * Len(trades))
  /\ [][/\ xp' >= xp
        /\ xp = XpMax => xp' = XpMax
        /\ \A u \in {0, 480025} :
             (position # Null /\ ClosePosition(u)) =>
               LET gain == xp + ClaimedPoints(PnlOf(position, currentPrice + ExitOffset(u)))
               IN  xp' = IF gain > XpMax THEN XpMax ELSE gain
        /\ ~SuccessfulClose => xp' = xp]_vars

\* C28 witness: after two losing and eighteen winning closes XP was cut to
\* xpMax, and it is still there after one more close.
C28_Witness ==
  /\ xp = XpMax
  /\ Len(trades) = 21
  /\ trades[21].pnl < 0 /\ trades[20].pnl < 0
  /\ position = Null

\* No closed trade was held for a single candle: the candle count of a mounted
\* SimulationModule never changes, so candlesHeld is 0 on every trade.
HeldCandlesAlwaysZero ==
  \A i \in 1..Len(trades) : trades[i].candlesHeld = 0

\* Trade t is recorded in biasHistory with the Early Exit flag.
FlaggedEarlyExit(t) ==
  \E j \in 1..Len(biasHistory) :
    biasHistory[j].trade = t /\ Has(biasHistory[j].biases, "Early Exit")

\* C29: candlesHeld is never negative, and in the course of a session some
\* position is held while at least 3 candles are added and closed with
\* candlesHeld >= 3 and without the Early Exit flag.
C29_HeldTradeNotFlagged ==
  /\ [](\A i \in 1..Len(trades) : trades[i].candlesHeld >= 0)
  /\ <>(\E i \in 1..Len(trades) :
          trades[i].candlesHeld >= EarlyExitLimit /\ ~FlaggedEarlyExit(trades[i]))

\* C30: a close puts its trade in the banner; a banner is shown only while a
\* timer is pending, so that it is cleared in the end; and a timer that is not
\* the one of the latest close (an older one, another being pending) leaves the
\* banner of the latest trade in place.
C30_BannerKeepsItsTime ==
  /\ [](showOutcome # Null => outcomeTimers > 0)
  /\ [][/\ SuccessfulClose => showOutcome' = trades'[1]
        /\ (OutcomeTimerFires /\ outcomeTimers > 1 /\ showOutcome # Null)
             => showOutcome' = showOutcome]_vars

====
